---- MODULE Spec2Model ----
(***************************************************************************)
(* A model of the DPLL satisfiability engine (dpll_solve.py) and of the    *)
(* Sudoku CNF encoder / decoder built on it (sudoku.py).                   *)
(*                                                                         *)
(* Python values are modelled as follows.                                  *)
(*   - a clause is a sequence of nonzero integers, a clause database a     *)
(*     sequence of clauses (Python lists, order and duplicates kept);      *)
(*   - a dict is a sequence of <<key, value>> pairs in insertion order;    *)
(*   - the assignment values are 1, 0 and None;                            *)
(*   - the recursion of solve_sat is an explicit stack of suspended        *)
(*     frames, the pending call's arguments being held in args; a frame    *)
(*     keeps the locals solve_sat still reads after the call it waits for: *)
(*     clauses, copy_assm and p.                                           *)
(***************************************************************************)
EXTENDS Integers, Sequences, FiniteSets, TLC

VARIABLES
    n,             \* sudoku.py: the size read by read_puzzle (0 when the engine is called directly)
    clues,         \* sudoku.py: the clue dict, a sequence of <<x, y, z>> in insertion order
    use_extended,  \* sudoku.py: solve_puzzle's flag
    clauses,       \* the clause database handed to dpll (sudoku.py: the module-level list)
    pc,            \* the program's position
    args,          \* the arguments (clauses, assm) of the solve_sat call being entered
    stack,         \* the suspended solve_sat frames, outermost first
    ret,           \* the value returned by the call that just finished
    sudoku_sol,    \* sudoku.py: the grid returned by print_solution
    cand           \* an assignment under consideration, a function from variables to 0 and 1

vars == <<n, clues, use_extended, clauses, pc, args, stack, ret, sudoku_sol, cand>>

-----------------------------------------------------------------------------
(* Bounds of the inputs explored.                                          *)

\* variables of a clause database are drawn from 1..MaxVar
MaxVar == 2

\* a database's size, counted as one per clause plus one per literal
MaxSize == 6

\* a clue dict has at most MaxClues entries
MaxClues == 2

\* a clue dict whose assignments are all explored has at most MaxEncodingClues entries
MaxEncodingClues == 1

-----------------------------------------------------------------------------
(* Python helpers.                                                         *)

\* the unassigned value of an assignment entry (assm[abs(p)] = None)
None == -1

abs(p) == IF p >= 0 THEN p ELSE -p

\* Python's `l in c` on a list
In(l, c) == \E i \in 1..Len(c) : c[i] = l

\* Python's list.remove: drops the FIRST occurrence of l only
ListRemove(c, l) ==
    LET first == CHOOSE i \in 1..Len(c) : c[i] = l /\ \A j \in 1..(i-1) : c[j] # l
    IN  [i \in 1..(Len(c)-1) |-> IF i < first THEN c[i] ELSE c[i+1]]

\* dict lookups on the <<key, value>> sequence
Keys(d) == {d[i][1] : i \in 1..Len(d)}

HasKey(d, k) == \E i \in 1..Len(d) : d[i][1] = k

Get(d, k) == d[CHOOSE i \in 1..Len(d) : d[i][1] = k][2]

\* d[k] = v: an existing key keeps its place, a new key goes last
Put(d, k, v) ==
    IF HasKey(d, k)
    THEN [i \in 1..Len(d) |-> IF d[i][1] = k THEN <<k, v>> ELSE d[i]]
    ELSE Append(d, <<k, v>>)

-----------------------------------------------------------------------------
(* dpll_solve.py                                                           *)

check_done(cls) ==
    IF Len(cls) = 0 THEN "True"
    ELSE IF \E i \in 1..Len(cls) : Len(cls[i]) = 0 THEN "False"
    ELSE "None"

assign(assm, p) ==
    IF p >= 0 THEN Put(assm, abs(p), 1) ELSE Put(assm, abs(p), 0)

\* simplify's loop: the clauses that hold p are deleted, and the clauses left
\* that hold -p lose it once (list.remove)
simplify(cls, p) ==
    LET kept == SelectSeq(cls, LAMBDA c : ~In(p, c))
    IN  [i \in 1..Len(kept) |->
            IF In(-p, kept[i]) THEN ListRemove(kept[i], -p) ELSE kept[i]]

\* the literals of a database in the order the loops of get_vars visit them
RECURSIVE Flatten(_)
Flatten(cls) ==
    IF Len(cls) = 0 THEN <<>>
    ELSE IF Len(cls) = 1 THEN cls[1]
    ELSE Flatten(SubSeq(cls, 1, Len(cls) \div 2))
         \o Flatten(SubSeq(cls, (Len(cls) \div 2) + 1, Len(cls)))

\* the dict of get_vars: one None entry per variable, in the order of the
\* variables' first occurrences
get_vars(cls) ==
    LET flat == Flatten(cls)
        first == SelectSeq([i \in 1..Len(flat) |-> i],
                           LAMBDA i : \A j \in 1..(i - 1) : abs(flat[j]) # abs(flat[i]))
    IN  [k \in 1..Len(first) |-> <<abs(flat[first[k]]), None>>]

\* the loop of assign_pure_literals: the scan restarts at 0 after every unit
\* clause, so each round handles the first clause of length 1
RECURSIVE assign_pure_literals(_, _)
assign_pure_literals(cls, assm) ==
    IF \E i \in 1..Len(cls) : Len(cls[i]) = 1
    THEN LET i == CHOOSE k \in 1..Len(cls) :
                      Len(cls[k]) = 1 /\ \A j \in 1..(k-1) : Len(cls[j]) # 1
             p == cls[i][1]
         IN  assign_pure_literals(simplify(cls, p), assign(assm, p))
    ELSE [clauses |-> cls, assm |-> assm]

\* a slip in solve_sat's choice: the last None value is taken, not the first
IndexOfLastNone(assm) ==
    IF \E i \in 1..Len(assm) : assm[i][2] = None
    THEN CHOOSE i \in 1..Len(assm) :
             assm[i][2] = None /\ \A j \in (i+1)..Len(assm) : assm[j][2] # None
    ELSE 0

\* val_list.index(None): the position of the first None value, 0 when there
\* is none (Python raises ValueError)
IndexOfNone(assm) ==
    IF \E i \in 1..Len(assm) : assm[i][2] = None
    THEN CHOOSE i \in 1..Len(assm) :
             assm[i][2] = None /\ \A j \in 1..(i-1) : assm[j][2] # None
    ELSE 0

NoArgs == [clauses |-> <<>>, assm |-> <<>>]

NoRet == [pair |-> FALSE, sat |-> FALSE, assm |-> <<>>]

\* dpll up to its call of solve_sat
dpll ==
    /\ pc = "dpll"
    /\ IF check_done(clauses) # "None"
       THEN \* line 152: the bare verdict is returned, not a pair
            /\ ret' = [pair |-> FALSE, sat |-> (check_done(clauses) = "True"), assm |-> <<>>]
            /\ pc' = "returned"
            /\ args' = args
       ELSE LET r == assign_pure_literals(clauses, get_vars(clauses))
            IN  /\ args' = [clauses |-> r.clauses, assm |-> r.assm]
                /\ pc' = "solve_sat"
                /\ ret' = ret
    /\ UNCHANGED <<n, clues, use_extended, clauses, stack, sudoku_sol, cand>>

\* solve_sat from its entry to its first recursive call (or its return)
solve_sat ==
    /\ pc = "solve_sat"
    /\ IF check_done(args.clauses) # "None"
       THEN /\ ret' = [pair |-> TRUE, sat |-> (check_done(args.clauses) = "True"),
                       assm |-> args.assm]
            /\ pc' = "return"
            /\ UNCHANGED <<args, stack>>
       ELSE IF IndexOfNone(args.assm) = 0
       THEN \* val_list.index(None) raises ValueError
            /\ pc' = "error"
            /\ UNCHANGED <<args, stack, ret>>
       ELSE LET p == args.assm[IndexOfNone(args.assm)][1]
                copy_assm == assign(args.assm, -p)
            IN  /\ stack' = Append(stack, [clauses |-> args.clauses,
                                           copy_assm |-> copy_assm, p |-> p,
                                           phase |-> "false"])
                /\ args' = [clauses |-> simplify(args.clauses, -p), assm |-> copy_assm]
                /\ pc' = "solve_sat"
                /\ ret' = ret
    /\ UNCHANGED <<n, clues, use_extended, clauses, sudoku_sol, cand>>

\* lines 92-97: the false branch failed, the same variable is tried true
try_true ==
    /\ pc = "return"
    /\ stack # <<>>
    /\ LET f == stack[Len(stack)]
       IN  /\ f.phase = "false"
           /\ ~ret.sat
           /\ LET copy_assm == assign(f.copy_assm, f.p)
              IN  /\ stack' = [stack EXCEPT ![Len(stack)] =
                                  [f EXCEPT !.copy_assm = copy_assm, !.phase = "true"]]
                  /\ args' = [clauses |-> simplify(f.clauses, f.p), assm |-> copy_assm]
    /\ pc' = "solve_sat"
    /\ UNCHANGED <<n, clues, use_extended, clauses, ret, sudoku_sol, cand>>

\* line 92 (a satisfiable false branch) and line 97 (the true branch, whatever
\* it reports): the callee's result is returned as it is
return_result ==
    /\ pc = "return"
    /\ stack # <<>>
    /\ LET f == stack[Len(stack)]
       IN  f.phase = "true" \/ ret.sat
    /\ stack' = SubSeq(stack, 1, Len(stack) - 1)
    /\ UNCHANGED <<n, clues, use_extended, clauses, pc, args, ret, sudoku_sol, cand>>

\* line 160: dpll returns what the outermost solve_sat returned
dpll_return ==
    /\ pc = "return"
    /\ stack = <<>>
    /\ pc' = "returned"
    /\ UNCHANGED <<n, clues, use_extended, clauses, args, stack, ret, sudoku_sol, cand>>

-----------------------------------------------------------------------------
(* The engine called directly on a clause database (print(dpll(clauses))). *)

Literals == {l \in (-MaxVar)..MaxVar : l # 0}

RECURSIVE Sum(_)
Sum(s) == IF s = <<>> THEN 0 ELSE Head(s) + Sum(Tail(s))

\* the clause lengths of the databases of size at most MaxSize
Shapes ==
    UNION {{s \in [1..m -> 0..(MaxSize - m)] : m + Sum(s) <= MaxSize} : m \in 0..MaxSize}

\* the database whose clauses have the lengths of shape and the literals of flat
RECURSIVE Split(_, _)
Split(flat, shape) ==
    IF shape = <<>> THEN <<>>
    ELSE <<SubSeq(flat, 1, Head(shape))>>
         \o Split(SubSeq(flat, Head(shape) + 1, Len(flat)), Tail(shape))

\* the small test cases given at the end of dpll_solve.py
TestCases ==
    { << <<1, -5, 4, 2>>, <<-1, 5, 3, 4, 2>>, <<-3, -4, 2>>, <<3>>, <<5>> >>,
      << <<3, 1, 2>>, <<3, 1, -2>>, <<3, -1, 2>>, <<-3, 1, 2>>,
         <<3, -1, -2>>, <<-3, 1, -2>>, <<-3, -1, 2>>, <<-3, -1, -2>> >>,
      << <<3, 1, -2>>, <<-3, -1, 2>>, <<-3, 1, -2>> >> }

Init ==
    /\ n = 0
    /\ clues = <<>>
    /\ use_extended = FALSE
    /\ \/ \E shape \in Shapes : \E flat \in [1..Sum(shape) -> Literals] :
              clauses = Split(flat, shape)
       \/ clauses \in TestCases
    /\ pc = "dpll"
    /\ args = NoArgs
    /\ stack = <<>>
    /\ ret = NoRet
    /\ sudoku_sol = <<>>
    /\ cand = <<>>

Next == dpll \/ solve_sat \/ try_true \/ return_result \/ dpll_return

Spec == Init /\ [][Next]_vars

-----------------------------------------------------------------------------
(* sudoku.py                                                               *)

\* Python's range(a, b) as a set
range(a, b) == a..(b - 1)

\* lst[i] on a Python list: a negative index counts from the end
ValidIndex(lst, i) == -Len(lst) <= i /\ i < Len(lst)

Item(lst, i) == IF i >= 0 THEN lst[i + 1] ELSE lst[Len(lst) + i + 1]

\* line 284: the table s; the comprehension's outermost loop is the one over z,
\* so the first index of s selects z and the last selects x
s(nn) ==
    [zi \in 1..(nn*nn) |->
        [yi \in 1..(nn*nn) |->
            [xi \in 1..(nn*nn) |->
                (nn*nn*nn*nn*(xi - 1)) + (nn*nn*(yi - 1)) + (zi - 1) + 1]]]

\* s[a][b][c] for indices within range(n*n)
At(tbl, a, b, c) == tbl[a + 1][b + 1][c + 1]

\* the index tuples of nested for-loops over range(dims[1]), range(dims[2]), ...
\* in the order the loops visit them
RECURSIVE Loops(_)
Loops(dims) ==
    IF dims = <<>> THEN << <<>> >>
    ELSE LET rest == Loops(Tail(dims))
             r == Len(rest)
         IN  IF r = 0 \/ Head(dims) <= 0 THEN <<>>
             ELSE [k \in 1..(Head(dims) * r) |->
                      <<(k - 1) \div r>> \o rest[((k - 1) % r) + 1]]

\* the clauses one clue appends: its value's literal true, the others false
ClueUnits(nn, tbl, x, y, z) ==
    [k \in 1..(nn*nn) |->
        IF k - 1 = z - 1
        THEN <<Item(Item(tbl, x - 1), y - 1)[k]>>
        ELSE <<-Item(Item(tbl, x - 1), y - 1)[k]>>]

\* clue_clauses; raised tells that s[x-1][y-1] raised IndexError, the clauses
\* of the earlier clues being appended already
RECURSIVE clue_clauses(_, _, _, _)
clue_clauses(nn, tbl, cl, cls) ==
    IF cl = <<>> THEN [clauses |-> cls, raised |-> FALSE]
    ELSE LET x == Head(cl)[1]
             y == Head(cl)[2]
             z == Head(cl)[3]
         IN  IF nn*nn = 0
             THEN clue_clauses(nn, tbl, Tail(cl), cls)
             ELSE IF ~ValidIndex(tbl, x - 1) \/ ~ValidIndex(Item(tbl, x - 1), y - 1)
             THEN [clauses |-> cls, raised |-> TRUE]
             ELSE clue_clauses(nn, tbl, Tail(cl), cls \o ClueUnits(nn, tbl, x, y, z))

\* a slip in fill_val_clauses: the loop over x stops one row short
fill_val_clauses_short(nn, tbl, cls) ==
    LET t == Loops(<<nn*nn - 1, nn*nn>>)
    IN  cls \o [k \in 1..Len(t) |->
                   [z \in 1..(nn*nn) |-> At(tbl, t[k][1], t[k][2], z - 1)]]

fill_val_clauses(nn, tbl, cls) ==
    LET t == Loops(<<nn*nn, nn*nn>>)
    IN  cls \o [k \in 1..Len(t) |->
                   [z \in 1..(nn*nn) |-> At(tbl, t[k][1], t[k][2], z - 1)]]

fill_row_clauses(nn, tbl, cls) ==
    LET t == Loops(<<nn*nn, nn*nn>>)
    IN  cls \o [k \in 1..Len(t) |->
                   [x \in 1..(nn*nn) |-> At(tbl, x - 1, t[k][1], t[k][2])]]

fill_col_clauses(nn, tbl, cls) ==
    LET t == Loops(<<nn*nn, nn*nn>>)
    IN  cls \o [k \in 1..Len(t) |->
                   [y \in 1..(nn*nn) |-> At(tbl, t[k][1], y - 1, t[k][2])]]

\* a slip in row_clauses: i starts at y+2, so neighbouring columns are not compared
row_clauses_skipping(nn, tbl, cls) ==
    LET t == SelectSeq(Loops(<<nn*nn, nn*nn - 1, nn*nn, nn*nn>>),
                       LAMBDA u : u[4] \in range(u[2] + 2, nn*nn))
    IN  cls \o [k \in 1..Len(t) |->
                   <<-At(tbl, t[k][1], t[k][2], t[k][3]),
                     -At(tbl, t[k][1], t[k][4], t[k][3])>>]

\* loops x, y, z, i with i in range(y+1, n*n)
row_clauses(nn, tbl, cls) ==
    LET t == SelectSeq(Loops(<<nn*nn, nn*nn - 1, nn*nn, nn*nn>>),
                       LAMBDA u : u[4] \in range(u[2] + 1, nn*nn))
    IN  cls \o [k \in 1..Len(t) |->
                   <<-At(tbl, t[k][1], t[k][2], t[k][3]),
                     -At(tbl, t[k][1], t[k][4], t[k][3])>>]

\* loops x, y, z, i with i in range(x+1, n*n)
col_clauses(nn, tbl, cls) ==
    LET t == SelectSeq(Loops(<<nn*nn - 1, nn*nn, nn*nn, nn*nn>>),
                       LAMBDA u : u[4] \in range(u[1] + 1, nn*nn))
    IN  cls \o [k \in 1..Len(t) |->
                   <<-At(tbl, t[k][1], t[k][2], t[k][3]),
                     -At(tbl, t[k][4], t[k][2], t[k][3])>>]

\* loops x, y, z, i with i in range(z+1, n*n)
val_clauses(nn, tbl, cls) ==
    LET t == SelectSeq(Loops(<<nn*nn, nn*nn, nn*nn - 1, nn*nn>>),
                       LAMBDA u : u[4] \in range(u[3] + 1, nn*nn))
    IN  cls \o [k \in 1..Len(t) |->
                   <<-At(tbl, t[k][1], t[k][2], t[k][3]),
                     -At(tbl, t[k][1], t[k][2], t[k][4])>>]

\* first pass: loops x, y, z, i, j, k with k in range(y+1, n);
\* second pass: loops x, y, z, i, j, k, l with k in range(x+1, n)
box_clauses(nn, tbl, cls) ==
    LET t1 == SelectSeq(Loops(<<nn, nn, nn*nn, nn, nn, nn>>),
                        LAMBDA u : u[6] \in range(u[2] + 1, nn))
        t2 == SelectSeq(Loops(<<nn, nn, nn*nn, nn, nn, nn, nn>>),
                        LAMBDA u : u[6] \in range(u[1] + 1, nn))
    IN  cls
        \o [k \in 1..Len(t1) |->
               <<-At(tbl, nn*t1[k][4] + t1[k][1], nn*t1[k][5] + t1[k][2], t1[k][3]),
                 -At(tbl, nn*t1[k][4] + t1[k][1], nn*t1[k][5] + t1[k][6], t1[k][3])>>]
        \o [k \in 1..Len(t2) |->
               <<-At(tbl, nn*t2[k][4] + t2[k][1], nn*t2[k][5] + t2[k][2], t2[k][3]),
                 -At(tbl, nn*t2[k][4] + t2[k][6], nn*t2[k][5] + t2[k][7], t2[k][3])>>]

\* the clause families solve_puzzle appends after the clue clauses
rule_clauses(nn, tbl, ext, cls) ==
    LET basic == box_clauses(nn, tbl,
                     col_clauses(nn, tbl,
                         row_clauses(nn, tbl,
                             fill_val_clauses(nn, tbl, cls))))
    IN  IF ext
        THEN fill_col_clauses(nn, tbl,
                 fill_row_clauses(nn, tbl,
                     val_clauses(nn, tbl, basic)))
        ELSE basic

\* solve_puzzle up to its call of dpll
solve_puzzle ==
    /\ pc = "main"
    /\ LET r == clue_clauses(n, s(n), clues, clauses)
       IN  IF r.raised
           THEN /\ clauses' = r.clauses
                /\ pc' = "error"
           ELSE /\ clauses' = rule_clauses(n, s(n), use_extended, r.clauses)
                /\ pc' = "dpll"
    /\ UNCHANGED <<n, clues, use_extended, args, stack, ret, sudoku_sol, cand>>

\* print_solution's grid as a dict from <<row, col>> to the value: a cell gets
\* the last z whose variable is true, and no entry when none is
print_solution(nn, tbl, assm) ==
    LET t == Loops(<<nn*nn, nn*nn, nn*nn>>)
        hits == SelectSeq(t, LAMBDA u : Get(assm, At(tbl, u[1], u[2], u[3])) = 1)
        RECURSIVE fill(_, _)
        fill(d, h) ==
            IF h = <<>> THEN d
            ELSE fill(Put(d, <<Head(h)[1] + 1, Head(h)[2] + 1>>, Head(h)[3] + 1), Tail(h))
    IN  fill(<<>>, hits)

\* lines 288-293: the result of solve_puzzle is unpacked and, when satisfiable,
\* decoded; unpacking a bare verdict raises TypeError, reading a variable the
\* assignment has no entry for raises KeyError
main ==
    /\ pc = "returned"
    /\ IF ~ret.pair
       THEN /\ pc' = "error"
            /\ sudoku_sol' = sudoku_sol
       ELSE IF ret.sat
       THEN IF \A x \in range(0, n*n), y \in range(0, n*n), z \in range(0, n*n) :
                   HasKey(ret.assm, At(s(n), x, y, z))
            THEN /\ sudoku_sol' = print_solution(n, s(n), ret.assm)
                 /\ pc' = "done"
            ELSE /\ pc' = "error"
                 /\ sudoku_sol' = sudoku_sol
       ELSE /\ pc' = "done"
            /\ sudoku_sol' = sudoku_sol
    /\ UNCHANGED <<n, clues, use_extended, clauses, args, stack, ret, cand>>

-----------------------------------------------------------------------------
(* The whole program: a puzzle is read, encoded, solved and decoded.       *)

\* the sizes explored: the grids of 1 and 16 cells, and sizes that are not positive
Sizes == {-1, 0, 1, 2}

\* a clue dict has one entry per cell; its entries are listed in row-major order
RowMajor(cl) ==
    \A i \in 1..(Len(cl) - 1) :
        \/ cl[i][1] < cl[i + 1][1]
        \/ cl[i][1] = cl[i + 1][1] /\ cl[i][2] < cl[i + 1][2]

\* well-formed puzzles: at most MaxClues clues, placed in the first box
BoxClueDicts(nn) ==
    UNION {{cl \in [1..k -> (1..nn) \X (1..nn) \X (1..(nn*nn))] : RowMajor(cl)} :
           k \in 0..MaxClues}

\* puzzles of one clue of which the row, the column or the value ranges from
\* one below to one above the grid's, the other two being 1; and the puzzle of
\* no clue
ProbeClueDicts(nn) ==
    {<<>>} \cup
    {<<t>> : t \in {u \in (0..(nn*nn + 1)) \X (0..(nn*nn + 1)) \X (0..(nn*nn + 1)) :
                       Cardinality({j \in 1..3 : u[j] # 1}) <= 1}}

\* two puzzles with a clue in every cell: a completed grid, and the same grid
\* with one clue changed
SamplePuzzles ==
    LET rows == << <<1, 2, 3, 4>>, <<3, 4, 1, 2>>, <<2, 1, 4, 3>>, <<4, 3, 2, 1>> >>
        full == [k \in 1..16 |->
                    <<((k - 1) \div 4) + 1, ((k - 1) % 4) + 1,
                      rows[((k - 1) \div 4) + 1][((k - 1) % 4) + 1]>>]
    IN  {full, [full EXCEPT ![16] = <<4, 4, 2>>]}

InitSudoku ==
    /\ \/ n \in {1, 2} /\ clues \in BoxClueDicts(n)
       \/ n \in Sizes /\ clues \in ProbeClueDicts(n)
       \/ n = 2 /\ clues \in SamplePuzzles
    /\ use_extended \in BOOLEAN
    /\ clauses = <<>>
    /\ pc = "main"
    /\ args = NoArgs
    /\ stack = <<>>
    /\ ret = NoRet
    /\ sudoku_sol = <<>>
    /\ cand = <<>>

NextSudoku ==
    solve_puzzle \/ dpll \/ solve_sat \/ try_true \/ return_result \/ dpll_return \/ main

SpecSudoku == InitSudoku /\ [][NextSudoku]_vars

-----------------------------------------------------------------------------
(* The assignments of an encoded puzzle's variables. Once solve_puzzle has *)
(* built the clause database, an assignment is chosen cell by cell: every  *)
(* step binds the n*n value variables of the next cell, in row-major       *)
(* order. A choice that falsifies a clause (binds all its literals false)  *)
(* is not pursued: no assignment extending it satisfies the database. So   *)
(* every total assignment that satisfies the database is reached.          *)

\* every literal of clause c is bound false by a
Falsified(c, a) ==
    \A i \in 1..Len(c) :
        abs(c[i]) \in DOMAIN a /\ a[abs(c[i])] = (IF c[i] > 0 THEN 0 ELSE 1)

\* some literal of clause c is bound true by a
Satisfied(c, a) ==
    \E i \in 1..Len(c) :
        abs(c[i]) \in DOMAIN a /\ a[abs(c[i])] = (IF c[i] > 0 THEN 1 ELSE 0)

\* the variables s holds
TableVariables(nn) ==
    {At(s(nn), x, y, z) : x \in range(0, nn*nn), y \in range(0, nn*nn),
                          z \in range(0, nn*nn)}

\* a binds every variable s holds
Total(a) ==
    /\ Cardinality(DOMAIN a) = n*n*n*n*n*n
    /\ DOMAIN a = TableVariables(n)

\* (a quantifier over a one-element set names a value that is computed once)
assume_cell ==
    /\ pc = "dpll"
    /\ Cardinality(DOMAIN cand) < n*n*n*n*n*n
    /\ \E k \in {Cardinality(DOMAIN cand) \div (n*n)} :
       \E cell \in {{At(s(n), k \div (n*n), k % (n*n), z) : z \in range(0, n*n)}} :
       \E bound \in {(DOMAIN cand) \cup cell} :
       \* the clauses this step binds the last unbound variable of: only they can
       \* be falsified by it
       \E decided \in {SelectSeq(clauses, LAMBDA c :
                          /\ \E i \in 1..Len(c) : abs(c[i]) \in cell
                          /\ \A i \in 1..Len(c) : abs(c[i]) \in bound)} :
       \E true \in SUBSET cell :
       \E ext \in {[v \in bound |->
                      IF v \in cell THEN (IF v \in true THEN 1 ELSE 0) ELSE cand[v]]} :
           /\ \A i \in 1..Len(decided) : ~Falsified(decided[i], ext)
           /\ cand' = ext
    /\ UNCHANGED <<n, clues, use_extended, clauses, pc, args, stack, ret, sudoku_sol>>

\* well-formed puzzles: at most MaxEncodingClues clues, placed in the first box
InitEncoding ==
    /\ n \in {1, 2}
    /\ clues \in {cl \in BoxClueDicts(n) : Len(cl) <= MaxEncodingClues}
    /\ use_extended \in BOOLEAN
    /\ clauses = <<>>
    /\ pc = "main"
    /\ args = NoArgs
    /\ stack = <<>>
    /\ ret = NoRet
    /\ sudoku_sol = <<>>
    /\ cand = <<>>

NextEncoding == solve_puzzle \/ assume_cell

SpecEncoding == InitEncoding /\ [][NextEncoding]_vars

-----------------------------------------------------------------------------
(* What the engine's contract speaks of.                                   *)

Variables(cls) == {abs(Flatten(cls)[i]) : i \in 1..Len(Flatten(cls))}

\* the literal l is bound to its polarity by the dict assm
BoundTrue(assm, l) ==
    HasKey(assm, abs(l)) /\ Get(assm, abs(l)) = (IF l > 0 THEN 1 ELSE 0)

\* some assignment of the database's variables satisfies every clause
Satisfiable(cls) ==
    \E a \in [Variables(cls) -> {0, 1}] :
        \A i \in 1..Len(cls) : \E j \in 1..Len(cls[i]) :
            a[abs(cls[i][j])] = (IF cls[i][j] > 0 THEN 1 ELSE 0)

ReportsSat == pc = "returned" /\ ret.sat

\* the place of variable v's first occurrence in the input database
FirstOccurrence(v) ==
    CHOOSE i \in 1..Len(Flatten(clauses)) :
        /\ abs(Flatten(clauses)[i]) = v
        /\ \A j \in 1..(i-1) : abs(Flatten(clauses)[j]) # v

Unassigned(assm) == {k \in Keys(assm) : Get(assm, k) = None}

\* the literal a frame's pending recursive call was simplified with
BranchLiteral(f) == IF f.phase = "false" THEN -f.p ELSE f.p

-----------------------------------------------------------------------------
(* What the puzzle's contract speaks of.                                   *)

Cells(nn) == (1..(nn*nn)) \X (1..(nn*nn))

\* two different cells that share a row, a column or a box
Peers(nn, c, d) ==
    /\ c # d
    /\ \/ c[1] = d[1]
       \/ c[2] = d[2]
       \/ /\ (c[1] - 1) \div nn = (d[1] - 1) \div nn
          /\ (c[2] - 1) \div nn = (d[2] - 1) \div nn

Perms(L) == {p \in [1..L -> 1..L] : \A i, j \in 1..L : i # j => p[i] # p[j]}

\* the first k rows of the completed grids of size nn: every row is a
\* permutation that repeats no value of an earlier row's peers
RECURSIVE GridRows(_, _)
GridRows(nn, k) ==
    IF k = 0 THEN {<<>>}
    ELSE UNION {{Append(g, r) :
                    r \in {q \in Perms(nn*nn) :
                              \A i \in 1..Len(g) : \A c, d \in 1..(nn*nn) :
                                  Peers(nn, <<i, c>>, <<k, d>>) => g[i][c] # q[d]}} :
                g \in GridRows(nn, k - 1)}

\* the completed grids of 1 cell and of 16 cells, each a sequence of rows
Grids1 == GridRows(1, 1*1)

Grids2 == GridRows(2, 2*2)

CompleteGrids(nn) == IF nn = 1 THEN Grids1 ELSE Grids2

\* the clues lie in the grid, as do their values, and the size is 1 or 2
WellFormed ==
    /\ n \in {1, 2}
    /\ \A i \in 1..Len(clues) : \A j \in 1..3 : clues[i][j] \in 1..(n*n)

\* the size is not positive, or a clue's row, column or value is outside 1..n*n
Malformed ==
    \/ n <= 0
    \/ \E i \in 1..Len(clues) : \E j \in 1..3 : clues[i][j] \notin 1..(n*n)

\* some completed grid agrees with every clue
Solvable ==
    \E g \in CompleteGrids(n) :
        \A i \in 1..Len(clues) : g[clues[i][1]][clues[i][2]] = clues[i][3]

-----------------------------------------------------------------------------
(* The puzzle's claims.                                                    *)

\* C5: for a well-formed puzzle of size 1 or 2 the program raises nothing; if
\* some completed grid agrees with the clues, solve_puzzle reports satisfiable
\* and print_solution's grid has an entry for every cell, agrees with every clue
\* and repeats no value in a row, a column or a box; if none does, solve_puzzle
\* reports unsatisfiable.
C5_SolvesPuzzle ==
    WellFormed =>
        /\ pc # "error"
        /\ pc \in {"returned", "done"} => (ret.pair /\ (ret.sat <=> Solvable))
        /\ (pc = "done" /\ ret.sat) =>
              /\ Keys(sudoku_sol) = Cells(n)
              /\ \A i \in 1..Len(clues) :
                     Get(sudoku_sol, <<clues[i][1], clues[i][2]>>) = clues[i][3]
              /\ \A c, d \in Cells(n) :
                     Peers(n, c, d) => Get(sudoku_sol, c) # Get(sudoku_sol, d)

\* C5's case: a 16-cell puzzle with two clues has been solved and decoded.
C5_Witness ==
    /\ WellFormed /\ n = 2 /\ Len(clues) = 2
    /\ pc = "done" /\ ret.sat
    /\ Keys(sudoku_sol) = Cells(n)

\* C6: a puzzle with a clue outside the grid, or a size that is not positive,
\* is rejected: no clause database is built from it and no verdict is reached.
C6_MalformedRejected ==
    Malformed => (pc \in {"main", "error"} /\ clauses = <<>>)

\* C7: s[x][y][z] = n^4*x + n^2*y + z + 1 for all x, y, z in range(n*n).
C7_TableFormula ==
    \A x, y, z \in range(0, n*n) :
        At(s(n), x, y, z) = (n*n*n*n*x) + (n*n*y) + z + 1

\* C8: every total assignment that satisfies the clause database solve_puzzle
\* builds (with or without the extended families) sets exactly one of the
\* value variables s[x][y][0..n*n-1] true for every cell (x, y).
C8_ExactlyOneValue ==
    (/\ pc = "dpll" /\ WellFormed
     /\ Total(cand)
     /\ \A i \in 1..Len(clauses) : Satisfied(clauses[i], cand))
    => \A x, y \in range(0, n*n) :
           Cardinality({z \in range(0, n*n) : cand[At(s(n), x, y, z)] = 1}) = 1

\* C8's case: a total assignment satisfying the database built for a 16-cell
\* puzzle without the extended families.
C8_Witness ==
    /\ pc = "dpll" /\ WellFormed /\ n = 2 /\ ~use_extended
    /\ Total(cand)
    /\ \A i \in 1..Len(clauses) : Satisfied(clauses[i], cand)

-----------------------------------------------------------------------------
(* The engine's claims.                                                    *)

\* C1: whenever dpll reports satisfiable, every clause of the original database
\* holds a literal whose variable the returned assignment binds to that
\* literal's polarity.
C1_AssignmentSatisfies ==
    ReportsSat =>
        \A i \in 1..Len(clauses) : \E j \in 1..Len(clauses[i]) :
            BoundTrue(ret.assm, clauses[i][j])

\* C2: whenever dpll reports satisfiable, every variable of the input database
\* is bound to 1 or 0 in the returned assignment, none is left None.
C2_AssignmentTotal ==
    ReportsSat =>
        \A v \in Variables(clauses) :
            HasKey(ret.assm, v) /\ Get(ret.assm, v) \in {0, 1}

\* C3: dpll reports satisfiable exactly when some assignment of the database's
\* variables satisfies every clause (the test cases of dpll_solve.py are among
\* the databases explored).
C3_VerdictIsSatisfiability ==
    pc = "returned" => (ret.sat <=> Satisfiable(clauses))

\* C4: dpll never raises, and what it returns is a pair (satisfiable,
\* assignment).
C4_AlwaysReturnsPair ==
    /\ pc # "error"
    /\ pc = "returned" => ret.pair

\* C9: the database simplify(D, p) returns has no more clauses than D, and none
\* of its clauses holds p or -p. (D and p are the clauses and the branch literal
\* of the innermost suspended frame, the result the pending call's clauses.)
C9_SimplifyRemovesLiteral ==
    (pc = "solve_sat" /\ stack # <<>>) =>
        LET f == stack[Len(stack)]
        IN  /\ Len(args.clauses) <= Len(f.clauses)
            /\ \A i \in 1..Len(args.clauses) :
                   /\ ~In(BranchLiteral(f), args.clauses[i])
                   /\ ~In(-BranchLiteral(f), args.clauses[i])

====
